---- MODULE Spec2Model ----
(***************************************************************************)
(* A model of sbv2_core: the bounded multi-model cache of TtsModelHolder   *)
(* (src/src/tts.rs), the style-vector parser (src/src/style.rs), the       *)
(* archive loader and the tone validator of JTalkProcess                   *)
(* (src/src/jtalk.rs).                                                     *)
(***************************************************************************)
EXTENDS Integers, Sequences, FiniteSets, TLC

VARIABLES
    models,             \* TtsModelHolder.models : EitherTtsModelVec
    max_loaded_models,  \* TtsModelHolder.max_loaded_models : Option<usize>
    overflow_checks,    \* build profile: are integer overflow checks compiled in
    last,               \* the last public call: its arguments and what it returned
    instantiated,       \* the identities whose session is live, oldest session first
    phone_tone_list,    \* the argument of the pending or last fix_phone_tone call
    fixed,              \* what fix_phone_tone returned ("pending" record before the call)
    call,               \* the pending or last call of a text-pipeline function: its arguments
    ret                 \* what that call returned ("pending" record before it returns)

vars == <<models, max_loaded_models, overflow_checks, last, instantiated,
          phone_tone_list, fixed, call, ret>>

cacheVars == <<models, max_loaded_models, overflow_checks, last, instantiated>>
toneVars == <<phone_tone_list, fixed>>
pureVars == <<call, ret>>

----------------------------------------------------------------------------
(* Bounds of the model. *)

\* The caps explored are None and Some(0) .. Some(MaxCap).
MaxCap == 2

\* The longest phrase handed to fix_phone_tone.
MaxPhraseLen == 3

\* The largest tone value of a phrase (the smallest is -1).
MaxTone == 2

\* The longest archive (number of tar entries) handed to load_from_sbv2file.
MaxArchiveLen == 2

----------------------------------------------------------------------------
(* Values. *)

\* Option<T>
None == [some |-> FALSE]
Some(x) == [some |-> TRUE, v |-> x]

\* Result<T, Sbv2CoreError>; a panic is kept apart from an Err: it is not a
\* value returned to the caller.
Ok(x) == [kind |-> "Ok", val |-> x]
Err(e, m) == [kind |-> "Err", err |-> e, msg |-> m]
Panic(m) == [kind |-> "Panic", msg |-> m]
IsOk(r) == r.kind = "Ok"
IsErr(r) == r.kind = "Err"
IsPanic(r) == r.kind = "Panic"
Unit == "()"

\* The model identities the callers use; "" is the identity session
\* eviction falls back to when no entry is hot.
Idents == {"", "a", "b"}

\* Weight blobs: one that the inference runtime accepts and one it rejects.
ValidOnnx == {[onnx |-> "vits2"]}
OnnxBlobs == ValidOnnx \cup {[onnx |-> "junk"]}

\* style_vectors.json payloads: not JSON at all, a well-formed matrix of
\* two rows, and one whose "shape" does not match its "data".
StyleBlobs ==
    { [json |-> FALSE, shape |-> <<0, 0>>, data |-> <<>>],
      [json |-> TRUE,  shape |-> <<2, 1>>, data |-> << <<0>>, <<1>> >>],
      [json |-> TRUE,  shape |-> <<2, 2>>, data |-> << <<0>>, <<1>> >>] }

\* The style ids the callers ask for: a row of the matrix, and one past it.
StyleIds == {1, 2}

\* One tar entry of a decoded .sbv2 archive: whether its header parses
\* (entries.next() yields Ok), whether its bytes can be read to the end, its
\* path and its bytes.
TarEntry(hdr_ok, read_ok, name, data) ==
    [hdr_ok |-> hdr_ok, read_ok |-> read_ok, name |-> name, data |-> data]

TarEntries ==
    {TarEntry(TRUE, TRUE, "model.onnx", b) : b \in ValidOnnx}
    \cup {TarEntry(TRUE, TRUE, "style_vectors.json", st) :
            st \in {b \in StyleBlobs : b.shape[1] * b.shape[2] = Len(b.data)}}
    \cup {TarEntry(TRUE, TRUE, "config.json", [text |-> "{}"]),
          TarEntry(TRUE, FALSE, "model.onnx", [text |-> ""]),
          TarEntry(FALSE, FALSE, "", [text |-> ""])}

\* The phonemes and tones of the phrases handed to fix_phone_tone.
Phones == {"a", "k"}
Tones == (-1)..MaxTone

SeqsUpTo(S, n) == UNION {[1..k -> S] : k \in 0..n}

\* The .sbv2 files handed to load_from_sbv2file: bytes zstd cannot decode,
\* and the zstd-compressed archives of at most MaxArchiveLen entries.
Sbv2Files ==
    {[zstd_ok |-> FALSE, entries |-> <<>>]}
    \cup {[zstd_ok |-> TRUE, entries |-> es] : es \in SeqsUpTo(TarEntries, MaxArchiveLen)}

\* usize::MAX.  TLC's integers are 32-bit, so the largest of those stands
\* for it; it is only ever compared with a number of entries.
USIZE_MAX == 2147483647

----------------------------------------------------------------------------
(* Helpers on Vec. *)

RECURSIVE Flatten(_)
Flatten(rows) ==
    IF rows = <<>> THEN <<>> ELSE Head(rows) \o Flatten(Tail(rows))

\* vec.remove(i), 1-based
Remove(vec, i) == SubSeq(vec, 1, i - 1) \o SubSeq(vec, i + 1, Len(vec))

\* vec.iter().position(|m| m.model_ident == model_ident), 1-based, 0 for None
Position(vec, model_ident) ==
    IF \E i \in DOMAIN vec : vec[i].model_ident = model_ident
    THEN CHOOSE i \in DOMAIN vec :
            /\ vec[i].model_ident = model_ident
            /\ \A j \in DOMAIN vec : vec[j].model_ident = model_ident => i <= j
    ELSE 0

----------------------------------------------------------------------------
(* src/src/model.rs, src/src/style.rs *)

\* An ort Session committed from a weight blob.
Session(model_bytes) == [committed_from |-> model_bytes]

\* load_model_session: commit_from_memory fails on bytes that are no model,
\* and can fail for reasons of the runtime alone (runtime_ok = FALSE).
load_model_session(model_bytes, is_bert, runtime_ok) ==
    IF model_bytes \in ValidOnnx /\ runtime_ok
    THEN Ok(Session(model_bytes))
    ELSE Err("OrtError", "")

\* load_style: serde_json::from_slice, then Array2::from_shape_vec on the
\* flattened rows, which fails when shape[0] * shape[1] is not their number.
load_style(style) ==
    IF ~style.json
    THEN Err("SerdeJsonError", "")
    ELSE LET flat == Flatten(style.data)
         IN  IF style.shape[1] * style.shape[2] # Len(flat)
             THEN Err("NdArrayError", "")
             ELSE Ok([shape |-> style.shape, flat |-> flat])

\* get_style_vector: slicing row style_id panics when the matrix has no such
\* row; the interpolated vector itself is not modelled.
get_style_vector(style_vectors, style_id) ==
    IF style_id >= style_vectors.shape[1]
    THEN Panic("ndarray: index out of bounds")
    ELSE Ok(Unit)

----------------------------------------------------------------------------
(* src/src/tts.rs: TtsModelHolder.  self is [models, max_loaded_models];   *)
(* models is [kind, vec] for EitherTtsModelVec::Limit / ::NoLimit.          *)

\* UpperLimitTtsModel
UpperLimitTtsModel(model_ident, vits2, bytes, style_vectors) ==
    [model_ident |-> model_ident, vits2 |-> vits2, bytes |-> bytes,
     style_vectors |-> style_vectors]

\* NoUpperLimitTtsModel
NoUpperLimitTtsModel(model_ident, vits2, style_vectors) ==
    [model_ident |-> model_ident, vits2 |-> vits2,
     style_vectors |-> style_vectors]

\* TtsModelHolder::new, past the bert and tokenizer set-up
new(cap) ==
    [models |-> [kind |-> IF cap.some THEN "Limit" ELSE "NoLimit", vec |-> <<>>],
     max_loaded_models |-> cap]

\* a - b on usize: wraps without overflow checks, panics with them
usize_sub(a, b, checks) ==
    IF a >= b THEN Ok(a - b)
    ELSE IF checks THEN Panic("attempt to subtract with overflow")
    ELSE Ok(USIZE_MAX - (b - a) + 1)

get_loadedmodel_count(self) ==
    IF self.models.kind = "NoLimit"
    THEN Len(self.models.vec)
    ELSE Cardinality({i \in DOMAIN self.models.vec : self.models.vec[i].vits2.some})

\* is_max_models_loaded comparing with > instead of >=.
is_max_models_loaded_gt(self) ==
    IF self.models.kind = "NoLimit" THEN FALSE
    ELSE IF ~self.max_loaded_models.some THEN FALSE
    ELSE Cardinality({i \in DOMAIN self.models.vec : self.models.vec[i].vits2.some})
            > self.max_loaded_models.v

is_max_models_loaded(self) ==
    IF self.models.kind = "NoLimit" THEN FALSE
    ELSE IF ~self.max_loaded_models.some THEN FALSE
    ELSE Cardinality({i \in DOMAIN self.models.vec : self.models.vec[i].vits2.some})
            >= self.max_loaded_models.v

\* get_either_model: Some(entry) or None
get_either_model(self, model_ident) ==
    LET i == Position(self.models.vec, model_ident)
    IN  IF i = 0 THEN None ELSE Some(self.models.vec[i])

load(self, model_ident, style_vectors_bytes, vits2_bytes, runtime_ok) ==
    IF get_either_model(self, model_ident).some
    THEN [self |-> self, res |-> Ok(Unit)]
    ELSE
    LET max_loaded == is_max_models_loaded(self)
        style_vectors == load_style(style_vectors_bytes)
        session == load_model_session(vits2_bytes, FALSE, runtime_ok)
    IN  IF ~IsOk(style_vectors)
        THEN [self |-> self, res |-> style_vectors]
        ELSE IF self.models.kind = "Limit"
        THEN IF max_loaded
             THEN [self |-> [self EXCEPT !.models.vec = Append(@,
                        UpperLimitTtsModel(model_ident, None, vits2_bytes,
                                           style_vectors.val))],
                   res |-> Ok(Unit)]
             ELSE IF ~IsOk(session)
             THEN [self |-> self, res |-> session]
             ELSE [self |-> [self EXCEPT !.models.vec = Append(@,
                        UpperLimitTtsModel(model_ident, Some(session.val),
                                           vits2_bytes, style_vectors.val))],
                   res |-> Ok(Unit)]
        ELSE IF ~IsOk(session)
             THEN [self |-> self, res |-> session]
             ELSE [self |-> [self EXCEPT !.models.vec = Append(@,
                        NoUpperLimitTtsModel(model_ident, session.val,
                                             style_vectors.val))],
                   res |-> Ok(Unit)]

\* unload taking the entry out with swap_remove, which moves the last entry
\* into its place.
unload_swap_remove(self, model_ident) ==
    LET vec == self.models.vec
        i == Position(vec, model_ident)
        n == Len(vec)
    IN  IF i = 0
        THEN [self |-> self, res |-> FALSE]
        ELSE [self |-> [self EXCEPT !.models.vec =
                            [k \in 1..(n - 1) |-> IF k = i THEN vec[n] ELSE vec[k]]],
              res |-> TRUE]

unload(self, model_ident) ==
    LET i == Position(self.models.vec, model_ident)
    IN  IF i = 0
        THEN [self |-> self, res |-> FALSE]
        ELSE [self |-> [self EXCEPT !.models.vec = Remove(@, i)], res |-> TRUE]

\* session_unload dropping the entry instead of its session.
session_unload_entry(self, model_ident) ==
    IF self.models.kind = "NoLimit" THEN self
    ELSE LET i == Position(self.models.vec, model_ident)
         IN  IF i = 0 THEN self
             ELSE [self EXCEPT !.models.vec = Remove(@, i)]

session_unload(self, model_ident) ==
    IF self.models.kind = "NoLimit" THEN self
    ELSE LET i == Position(self.models.vec, model_ident)
         IN  IF i = 0 THEN self
             ELSE [self EXCEPT !.models.vec[i].vits2 = None]

\* The scan ending at the first entry that is neither of the two members.
RECURSIVE scan_entries_break(_, _, _)
scan_entries_break(entries, vits2, style_vectors) ==
    IF entries = <<>> \/ ~Head(entries).hdr_ok
    THEN Ok([vits2 |-> vits2, style_vectors |-> style_vectors])
    ELSE LET e == Head(entries)
         IN  IF ~e.read_ok THEN Err("IoError", "")
             ELSE IF e.name = "model.onnx"
             THEN scan_entries_break(Tail(entries), Some(e.data), style_vectors)
             ELSE IF e.name = "style_vectors.json"
             THEN scan_entries_break(Tail(entries), vits2, Some(e.data))
             ELSE Ok([vits2 |-> vits2, style_vectors |-> style_vectors])

\* Lines 223-236: the scan of the archive entries.  It ends at the first
\* entry whose header does not parse (while let Some(Ok(e))), and returns the
\* io error of the first entry that cannot be read.
RECURSIVE scan_entries(_, _, _)
scan_entries(entries, vits2, style_vectors) ==
    IF entries = <<>> \/ ~Head(entries).hdr_ok
    THEN Ok([vits2 |-> vits2, style_vectors |-> style_vectors])
    ELSE LET e == Head(entries)
         IN  IF ~e.read_ok THEN Err("IoError", "")
             ELSE IF e.name = "model.onnx"
             THEN scan_entries(Tail(entries), Some(e.data), style_vectors)
             ELSE IF e.name = "style_vectors.json"
             THEN scan_entries(Tail(entries), vits2, Some(e.data))
             ELSE scan_entries(Tail(entries), vits2, style_vectors)

load_from_sbv2file(self, model_ident, sbv2file, runtime_ok) ==
    IF ~sbv2file.zstd_ok
    THEN [self |-> self, res |-> Err("IoError", "")]
    ELSE
    LET found == scan_entries(sbv2file.entries, None, None)
    IN  IF ~IsOk(found)
        THEN [self |-> self, res |-> found]
        ELSE IF found.val.vits2.some /\ found.val.style_vectors.some
        THEN load(self, model_ident, found.val.style_vectors.v,
                  found.val.vits2.v, runtime_ok)
        ELSE IF found.val.style_vectors.some
        THEN [self |-> self,
              res |-> Err("ModelNotFoundError", "vits2 not found")]
        ELSE IF found.val.vits2.some
        THEN [self |-> self,
              res |-> Err("ModelNotFoundError", "style_vectors not found")]
        ELSE [self |-> self,
              res |-> Err("ModelNotFoundError", "vits2, style_vectors not found")]

\* Mutation of remove_model_ident: the last entry with a session.
remove_model_ident_newest(self) ==
    LET vec == self.models.vec
        hot == {i \in DOMAIN vec : vec[i].vits2.some}
    IN  IF hot = {} THEN ""
        ELSE vec[CHOOSE i \in hot : \A j \in hot : i >= j].model_ident

\* The identity of the first entry with a session, "" when there is none
\* (lines 305-316).
remove_model_ident(self) ==
    LET vec == self.models.vec
        hot == {i \in DOMAIN vec : vec[i].vits2.some}
    IN  IF hot = {} THEN ""
        ELSE vec[CHOOSE i \in hot : \A j \in hot : i <= j].model_ident

\* evict_for comparing with max_loaded_models instead of max_loaded_models - 1.
evict_for_at_cap(self, checks) ==
    IF ~self.max_loaded_models.some THEN Ok(self)
    ELSE IF get_loadedmodel_count(self) >= self.max_loaded_models.v
    THEN Ok(session_unload(self, remove_model_ident(self)))
    ELSE Ok(self)

\* Lines 301-321: with the entry already taken out of the vector, unload the
\* first session when loaded_model_count >= max_loaded_models - 1.
evict_for(self, checks) ==
    IF ~self.max_loaded_models.some THEN Ok(self)
    ELSE
    LET loaded_model_count == get_loadedmodel_count(self)
        limit == usize_sub(self.max_loaded_models.v, 1, checks)
    IN  IF IsPanic(limit) THEN limit
        ELSE IF loaded_model_count >= limit.val
        THEN Ok(session_unload(self, remove_model_ident(self)))
        ELSE Ok(self)

\* Lines 298-337: the entry at idx has no session.  It is taken out of the
\* vector, a session is evicted if need be, its own session is built from
\* its bytes and it is pushed at the end.  A failure on the way returns with
\* the vector as it is at that point.
activate(self, idx, model_ident, runtime_ok, checks) ==
    LET model == self.models.vec[idx]
        removed == [self EXCEPT !.models.vec = Remove(@, idx)]
        evicted == evict_for(removed, checks)
        sbv2_session == load_model_session(model.bytes, FALSE, runtime_ok)
    IN  IF IsPanic(evicted)
        THEN [self |-> removed, res |-> evicted]
        ELSE IF ~IsOk(sbv2_session)
        THEN [self |-> evicted.val, res |-> sbv2_session]
        ELSE [self |-> [evicted.val EXCEPT !.models.vec = Append(@,
                    UpperLimitTtsModel(model_ident, Some(sbv2_session.val),
                                       model.bytes, model.style_vectors))],
              res |-> Ok(Unit)]

\* model_session_preparation without the early return for an entry that
\* already has a session.
model_session_preparation_always(self, model_ident, runtime_ok, checks) ==
    IF self.models.kind = "NoLimit"
    THEN [self |-> self, res |-> Ok(Unit)]
    ELSE
    LET idx == Position(self.models.vec, model_ident)
    IN  IF idx = 0
        THEN [self |-> self, res |-> Err("ModelNotFoundError", model_ident)]
        ELSE activate(self, idx, model_ident, runtime_ok, checks)

model_session_preparation(self, model_ident, runtime_ok, checks) ==
    IF self.models.kind = "NoLimit"
    THEN [self |-> self, res |-> Ok(Unit)]
    ELSE
    LET idx == Position(self.models.vec, model_ident)
    IN  IF idx = 0
        THEN [self |-> self, res |-> Err("ModelNotFoundError", model_ident)]
        ELSE IF self.models.vec[idx].vits2.some
        THEN [self |-> self, res |-> Ok(Unit)]
        ELSE activate(self, idx, model_ident, runtime_ok, checks)

\* synthesize: prep is what model_session_preparation returned, res what
\* synthesize did.  pipeline_ok says whether parse_text and the vocoder run
\* succeed on the text.
synthesize(self, model_ident, style_id, pipeline_ok, runtime_ok, checks) ==
    LET p == model_session_preparation(self, model_ident, runtime_ok, checks)
        either_ttsmodel == get_either_model(p.self, model_ident)
    IN  IF ~IsOk(p.res)
        THEN [self |-> p.self, prep |-> p.res, res |-> p.res]
        ELSE IF ~either_ttsmodel.some
        THEN [self |-> p.self, prep |-> p.res,
              res |-> Err("ModelNotFoundError", model_ident)]
        ELSE IF p.self.models.kind = "Limit" /\ ~either_ttsmodel.v.vits2.some
        THEN [self |-> p.self, prep |-> p.res, res |-> Panic("vits2 is None")]
        ELSE
        LET style_vector == get_style_vector(either_ttsmodel.v.style_vectors, style_id)
        IN  IF ~IsOk(style_vector)
            THEN [self |-> p.self, prep |-> p.res, res |-> style_vector]
            ELSE IF ~pipeline_ok
            THEN [self |-> p.self, prep |-> p.res, res |-> Err("ValueError", "")]
            ELSE [self |-> p.self, prep |-> p.res, res |-> Ok(Unit)]

----------------------------------------------------------------------------
(* src/src/jtalk.rs: JTalkProcess.  A phrase is a sequence of               *)
(* <<phoneme, tone>> pairs.                                                 *)

fix_phone_tone(list) ==
    LET tone_values == {list[i][2] : i \in DOMAIN list}
    IN  IF Cardinality(tone_values) = 1
        THEN IF tone_values = {0}
             THEN Ok(list)
             ELSE Panic("assertion failed: tone_values == hash_set![0]")
        ELSE IF Cardinality(tone_values) = 2
        THEN IF tone_values = {0, 1}
             THEN Ok(list)
             ELSE IF tone_values = {-1, 0}
             THEN Ok([i \in DOMAIN list |->
                        <<list[i][1], IF list[i][2] = -1 THEN 0 ELSE 1>>])
             ELSE Err("ValueError", "Invalid tone values 0")
        ELSE Err("ValueError", "Invalid tone values 1")

----------------------------------------------------------------------------
(* The cache as a state machine. *)

Self == [models |-> models, max_loaded_models |-> max_loaded_models]

\* A panic ends the calling thread: nothing is called after it.
Running == ~IsPanic(last.res)

\* The identities of the entries, and of those with a session.
IdentsOf(m) == {m.vec[i].model_ident : i \in DOMAIN m.vec}
HotIdents(m) ==
    IF m.kind = "NoLimit" THEN IdentsOf(m)
    ELSE {m.vec[i].model_ident : i \in {j \in DOMAIN m.vec : m.vec[j].vits2.some}}

\* The entries hot before whose session is gone after while the entry stayed.
EvictedBetween(before, after) ==
    {id \in HotIdents(before) : id \in IdentsOf(after) /\ id \notin HotIdents(after)}

\* The record of session instantiations after a call: the sessions that are
\* gone leave it, a session built by the call is the youngest.
Instantiated(order, before, after) ==
    LET kept == SelectSeq(order, LAMBDA id : id \in HotIdents(after))
        built == HotIdents(after) \ HotIdents(before)
    IN  IF built = {} THEN kept
        ELSE Append(kept, CHOOSE id \in built : TRUE)

NotCalled == [kind |-> "NotCalled"]

Called(op, model_ident, res, prep, self) ==
    [op |-> op, model_ident |-> model_ident, res |-> res, prep |-> prep,
     known |-> model_ident \in IdentsOf(models),
     was_hot |-> model_ident \in HotIdents(models),
     evicted |-> EvictedBetween(models, self.models)]

Pending == [kind |-> "Pending"]

NoCall == [fn |-> "none"]

Init ==
    /\ max_loaded_models \in {None} \cup {Some(n) : n \in 0..MaxCap}
    /\ models = new(max_loaded_models).models
    /\ overflow_checks \in BOOLEAN
    /\ last = [op |-> "new", model_ident |-> "", res |-> Ok(Unit),
               prep |-> NotCalled, known |-> FALSE, was_hot |-> FALSE,
               evicted |-> {}]
    /\ instantiated = <<>>
    /\ phone_tone_list = <<>>
    /\ fixed = Pending
    /\ call = NoCall
    /\ ret = Pending

Load(model_ident, style_vectors_bytes, vits2_bytes, runtime_ok) ==
    /\ Running
    /\ LET r == load(Self, model_ident, style_vectors_bytes, vits2_bytes, runtime_ok)
       IN  /\ models' = r.self.models
           /\ last' = Called("load", model_ident, r.res, NotCalled, r.self)
           /\ instantiated' = Instantiated(instantiated, models, r.self.models)
    /\ UNCHANGED <<max_loaded_models, overflow_checks, toneVars, pureVars>>

Unload(model_ident) ==
    /\ Running
    /\ LET r == unload(Self, model_ident)
       IN  /\ models' = r.self.models
           /\ last' = Called("unload", model_ident, Ok(r.res), NotCalled, r.self)
           /\ instantiated' = Instantiated(instantiated, models, r.self.models)
    /\ UNCHANGED <<max_loaded_models, overflow_checks, toneVars, pureVars>>

Synthesize(model_ident, style_id, pipeline_ok, runtime_ok) ==
    /\ Running
    /\ LET r == synthesize(Self, model_ident, style_id, pipeline_ok, runtime_ok,
                           overflow_checks)
       IN  /\ models' = r.self.models
           /\ last' = Called("synthesize", model_ident, r.res, r.prep, r.self)
           /\ instantiated' = Instantiated(instantiated, models, r.self.models)
    /\ UNCHANGED <<max_loaded_models, overflow_checks, toneVars, pureVars>>

LoadFromSbv2file(model_ident, sbv2file, runtime_ok) ==
    /\ Running
    /\ LET r == load_from_sbv2file(Self, model_ident, sbv2file, runtime_ok)
       IN  /\ models' = r.self.models
           /\ last' = Called("load_from_sbv2file", model_ident, r.res, NotCalled, r.self)
           /\ instantiated' = Instantiated(instantiated, models, r.self.models)
    /\ UNCHANGED <<max_loaded_models, overflow_checks, toneVars, pureVars>>

Next ==
    \/ \E id \in Idents, s \in StyleBlobs, b \in OnnxBlobs, ok \in BOOLEAN :
          Load(id, s, b, ok)
    \/ \E id \in Idents : Unload(id)
    \/ \E id \in Idents, sid \in StyleIds, pok \in BOOLEAN, ok \in BOOLEAN :
          Synthesize(id, sid, pok, ok)

Spec == Init /\ [][Next]_vars

\* The cache filled from .sbv2 archives: an unbounded holder and one of cap
\* 1, two identities.  No subtraction is reached by these operations, so
\* one build profile is enough.
ArchiveIdents == {"a", "b"}

InitArchive ==
    /\ Init
    /\ max_loaded_models \in {None, Some(1)}
    /\ overflow_checks = FALSE

NextArchive ==
    \/ \E id \in ArchiveIdents, f \in Sbv2Files, ok \in BOOLEAN :
          LoadFromSbv2file(id, f, ok)
    \/ \E id \in ArchiveIdents : Unload(id)

SpecArchive == InitArchive /\ [][NextArchive]_vars

----------------------------------------------------------------------------
(* The claims about the cache.  A step of an operation is recognised by    *)
(* what it records in last'; models is the cache before the call and       *)
(* models' the cache after it.                                              *)

\* The entry registered under id.
EntryOf(m, id) == m.vec[Position(m.vec, id)]

\* What of an entry is not its session: identity, weight bytes, style matrix.
Resident(e) == [f \in DOMAIN e \ {"vits2"} |-> e[f]]

\* The number of entries with a session.
LiveCount == get_loadedmodel_count(Self)

\* The identity the step's call was about.
Target == last'.model_ident

\* A step of synthesize in which model_session_preparation found the
\* registered entry Target without a session.
ColdActivationStep ==
    /\ last'.op = "synthesize"
    /\ Target \in IdentsOf(models) \ HotIdents(models)

\* C1: in bounded mode, for every cap (0 and 1 included), the number of
\* entries with a session never exceeds the cap.
C1_LiveCountWithinCap ==
    max_loaded_models.some => LiveCount <= max_loaded_models.v

\* C2: whenever load or model_session_preparation returns an error, the
\* cache is exactly as it was before the call.
C2_FailClosed ==
    [][ ( \/ last'.op = "load" /\ IsErr(last'.res)
          \/ last'.op = "synthesize" /\ IsErr(last'.prep) )
        => models' = models ]_vars

\* C3 as stated: with cap 2, registering a third model while two entries
\* are hot evicts exactly one previously-hot entry, not the new one, and
\* at most 2 sessions are live.
C3_RegisterThirdEvictsOne ==
    [][ ( /\ last'.op = "load"
          /\ IsOk(last'.res)
          /\ max_loaded_models = Some(2)
          /\ Target \notin IdentsOf(models)
          /\ LiveCount = 2 )
        => /\ Cardinality(EvictedBetween(models, models')) = 1
           /\ Target \notin EvictedBetween(models, models')
           /\ LiveCount' <= 2 ]_vars

\* C3 as amended: with cap 2 and two entries hot, registering a third model
\* appends it cold and evicts nothing; it is the next
\* model_session_preparation on a cold entry, two others being hot, that
\* clears the session of exactly one previously-hot entry, never the one
\* being activated; and at most 2 sessions are ever live.
C3_ThirdModelColdThenEvicts ==
    /\ [](max_loaded_models = Some(2) => LiveCount <= 2)
    /\ [][ ( /\ last'.op = "load"
             /\ IsOk(last'.res)
             /\ max_loaded_models = Some(2)
             /\ Target \notin IdentsOf(models)
             /\ LiveCount = 2 )
           => /\ EvictedBetween(models, models') = {}
              /\ HotIdents(models') = HotIdents(models)
              /\ models'.vec = Append(models.vec, EntryOf(models', Target))
              /\ ~EntryOf(models', Target).vits2.some ]_vars
    /\ [][ ( /\ ColdActivationStep
             /\ max_loaded_models = Some(2)
             /\ LiveCount = 2 )
           => /\ Cardinality(EvictedBetween(models, models')) = 1
              /\ Target \notin EvictedBetween(models, models')
              /\ LiveCount' <= 2 ]_vars

\* C3 witness: with cap 2, a third model was activated while two others were
\* hot, and one of them lost its session.
C3_Witness ==
    /\ max_loaded_models = Some(2)
    /\ last.op = "synthesize"
    /\ last.known /\ ~last.was_hot
    /\ IsOk(last.prep)
    /\ Cardinality(last.evicted) = 1
    /\ Len(models.vec) = 3
    /\ LiveCount = 2

\* C4: across a successful model_session_preparation the registered
\* identities are the same, every entry keeps its weight bytes and its style
\* matrix, and only the evicted entry and the activated entry change at all.
C4_EvictionKeepsEntries ==
    [][ ( /\ last'.op = "synthesize"
          /\ IsOk(last'.prep) )
        => /\ IdentsOf(models') = IdentsOf(models)
           /\ Len(models'.vec) = Len(models.vec)
           /\ \A id \in IdentsOf(models) :
                 Resident(EntryOf(models', id)) = Resident(EntryOf(models, id))
           /\ \A id \in IdentsOf(models) \ ({Target} \cup EvictedBetween(models, models')) :
                 EntryOf(models', id) = EntryOf(models, id) ]_vars

\* C4 witness: a successful activation of a cold entry that evicted the
\* session of another.
C4_Witness ==
    /\ last.op = "synthesize"
    /\ IsOk(last.prep)
    /\ last.known /\ ~last.was_hot
    /\ last.evicted # {}
    /\ last.model_ident \in HotIdents(models)
    /\ \E id \in last.evicted : ~EntryOf(models, id).vits2.some

\* C5: load of a registered identity returns Ok and changes nothing; a
\* successful load of a new identity appends exactly one entry, hot in
\* unbounded mode, and in bounded mode hot exactly when the live count was
\* below the cap before the call; load changes no existing entry.
C5_LoadAppendsOne ==
    [][ last'.op = "load"
        => /\ Target \in IdentsOf(models)
                => IsOk(last'.res) /\ models' = models
           /\ (Target \notin IdentsOf(models) /\ IsOk(last'.res))
                => /\ Len(models'.vec) = Len(models.vec) + 1
                   /\ models'.vec[Len(models'.vec)].model_ident = Target
                   /\ ~max_loaded_models.some => Target \in HotIdents(models')
                   /\ max_loaded_models.some
                        => (Target \in HotIdents(models')
                              <=> LiveCount < max_loaded_models.v)
           /\ \A i \in DOMAIN models.vec : models'.vec[i] = models.vec[i] ]_vars

\* C5 witness: in bounded mode with a cap of at least 1 already reached, a
\* new identity was registered and its entry is the last one, without a
\* session.
C5_Witness ==
    /\ last.op = "load"
    /\ IsOk(last.res)
    /\ ~last.known
    /\ max_loaded_models.some /\ max_loaded_models.v >= 1
    /\ LiveCount = max_loaded_models.v
    /\ models.vec[Len(models.vec)].model_ident = last.model_ident
    /\ ~models.vec[Len(models.vec)].vits2.some

\* C6: unload removes the entry of that identity, hot or cold, in both
\* modes, and returns true exactly when there was one; the other entries,
\* their order and their sessions are unchanged, and the cache is unchanged
\* when it returns false.
C6_UnloadRemovesEntry ==
    [][ last'.op = "unload"
        => /\ last'.res = Ok(Target \in IdentsOf(models))
           /\ Target \notin IdentsOf(models) => models' = models
           /\ Target \notin IdentsOf(models')
           /\ models'.kind = models.kind
           /\ models'.vec =
                 SelectSeq(models.vec, LAMBDA e : e.model_ident # Target) ]_vars

\* C6 witness: in bounded mode a cold entry standing before another entry
\* was unloaded.
C6_Witness ==
    /\ last.op = "unload"
    /\ last.res = Ok(TRUE)
    /\ last.known /\ ~last.was_hot
    /\ max_loaded_models.some
    /\ Len(models.vec) = 2
    /\ HotIdents(models) # {}

\* C7 as stated: model_session_preparation on an unregistered identity
\* fails with the model-not-found error, in bounded and unbounded mode.
C7_UnknownIdentFailsInPreparation ==
    [][ ( /\ last'.op = "synthesize"
          /\ Target \notin IdentsOf(models) )
        => last'.prep = Err("ModelNotFoundError", Target) ]_vars

\* C7 as amended: on an unregistered identity model_session_preparation
\* fails with model-not-found in bounded mode only; in unbounded mode it
\* returns Ok without looking the identity up and the model-not-found error
\* is raised by the lookup that follows in synthesize; in both modes
\* synthesize fails with model-not-found and the cache is unchanged.  On an
\* entry that is already hot, and on any registered identity in unbounded
\* mode, model_session_preparation is a no-op.
C7_UnknownIdentAndNoOp ==
    [][ last'.op = "synthesize"
        => /\ Target \notin IdentsOf(models)
                => /\ models' = models
                   /\ last'.res = Err("ModelNotFoundError", Target)
                   /\ max_loaded_models.some
                        => last'.prep = Err("ModelNotFoundError", Target)
                   /\ ~max_loaded_models.some => last'.prep = Ok(Unit)
           /\ Target \in HotIdents(models)
                => last'.prep = Ok(Unit) /\ models' = models ]_vars

\* C7 witness: in unbounded mode, with a model registered, synthesize was
\* called on an unregistered identity: the preparation returned Ok and the
\* lookup failed.
C7_Witness ==
    /\ last.op = "synthesize"
    /\ ~last.known
    /\ ~max_loaded_models.some
    /\ last.prep = Ok(Unit)
    /\ last.res = Err("ModelNotFoundError", last.model_ident)
    /\ models.vec # <<>>

----------------------------------------------------------------------------
(* The claim about the archive loader, under SpecArchive. *)

\* Every entry of the archive can be read.
Readable(f) ==
    /\ f.zstd_ok
    /\ \A i \in DOMAIN f.entries : f.entries[i].hdr_ok /\ f.entries[i].read_ok

\* The archive has a member of that name.
HasMember(f, name) == \E i \in DOMAIN f.entries : f.entries[i].name = name

\* C9: load_from_sbv2file reaches load only if model.onnx and
\* style_vectors.json are both in the archive; on a readable archive that
\* lacks model.onnx, style_vectors.json, or both, it returns a
\* model-not-found error whose message is the one of that case and names
\* what is absent, and the cache is unchanged.
C9_MissingMembers ==
    /\ [](\A id \in ArchiveIdents, f \in Sbv2Files, ok \in BOOLEAN :
            LET r == load_from_sbv2file(Self, id, f, ok)
                onnx == HasMember(f, "model.onnx")
                style == HasMember(f, "style_vectors.json")
                Missing(msg) == [self |-> Self,
                                 res |-> Err("ModelNotFoundError", msg)]
            IN  /\ (IsOk(r.res) \/ r.self # Self) => (onnx /\ style)
                /\ Readable(f) =>
                     /\ (~onnx /\ style) => r = Missing("vits2 not found")
                     /\ (onnx /\ ~style) => r = Missing("style_vectors not found")
                     /\ (~onnx /\ ~style)
                            => r = Missing("vits2, style_vectors not found")
                     /\ (onnx /\ style)
                            => \E i, j \in DOMAIN f.entries :
                                  /\ f.entries[i].name = "model.onnx"
                                  /\ f.entries[j].name = "style_vectors.json"
                                  /\ r = load(Self, id, f.entries[j].data,
                                              f.entries[i].data, ok))
    /\ [][ ( /\ last'.op = "load_from_sbv2file"
             /\ IsErr(last'.res)
             /\ last'.res.err = "ModelNotFoundError" )
           => models' = models ]_vars

\* C9 witness: with a model registered, an archive without
\* style_vectors.json was refused.
C9_Witness ==
    /\ last.op = "load_from_sbv2file"
    /\ last.res = Err("ModelNotFoundError", "style_vectors not found")
    /\ models.vec # <<>>

----------------------------------------------------------------------------
(* The tone validator applied to every phrase within the bounds. *)

Phrases == SeqsUpTo(Phones \X Tones, MaxPhraseLen)

InitTone ==
    /\ max_loaded_models = None
    /\ models = new(None).models
    /\ overflow_checks = FALSE
    /\ last = [op |-> "new", model_ident |-> "", res |-> Ok(Unit),
               prep |-> NotCalled, known |-> FALSE, was_hot |-> FALSE,
               evicted |-> {}]
    /\ instantiated = <<>>
    /\ phone_tone_list \in Phrases
    /\ fixed = Pending
    /\ call = NoCall
    /\ ret = Pending

FixPhoneTone ==
    /\ fixed = Pending
    /\ fixed' = fix_phone_tone(phone_tone_list)
    /\ UNCHANGED <<phone_tone_list, cacheVars, pureVars>>

NextTone == FixPhoneTone

SpecTone == InitTone /\ [][NextTone]_vars

\* The distinct tone values of the phrase.
ToneValues == {phone_tone_list[i][2] : i \in DOMAIN phone_tone_list}

\* C10: for every phrase, the empty one included, fix_phone_tone succeeds
\* exactly when the set of its tone values is {0}, {0,1} or {-1,0}, and
\* otherwise returns an invalid-tone error; {0} and {0,1} come back
\* unchanged, and for {-1,0} every -1 becomes 0 and every 0 becomes 1, with
\* phonemes, order and length kept.
C10_ToneValidation ==
    fixed # Pending
    => /\ IsOk(fixed) <=> ToneValues \in {{0}, {0, 1}, {-1, 0}}
       /\ ToneValues \notin {{0}, {0, 1}, {-1, 0}}
            => IsErr(fixed) /\ fixed.err = "ValueError"
       /\ ToneValues \in {{0}, {0, 1}} => fixed = Ok(phone_tone_list)
       /\ ToneValues = {-1, 0}
            => /\ IsOk(fixed)
               /\ Len(fixed.val) = Len(phone_tone_list)
               /\ \A i \in DOMAIN phone_tone_list :
                     /\ fixed.val[i][1] = phone_tone_list[i][1]
                     /\ fixed.val[i][2] = phone_tone_list[i][2] + 1

----------------------------------------------------------------------------
(* The text pipeline (jtalk.rs): each function is applied to every input
   within the bounds, the cache standing idle meanwhile. *)

\* The largest n_phone and n_word handed to distribute_phone.
MaxPhone == 9
MaxWord == 5

\* A holder that nobody calls while a text function runs.
CacheIdle ==
    /\ max_loaded_models = None
    /\ models = new(None).models
    /\ overflow_checks = FALSE
    /\ last = [op |-> "new", model_ident |-> "", res |-> Ok(Unit),
               prep |-> NotCalled, known |-> FALSE, was_hot |-> FALSE,
               evicted |-> {}]
    /\ instantiated = <<>>

ToneIdle ==
    /\ phone_tone_list = <<>>
    /\ fixed = Pending

RECURSIVE Sum(_)
Sum(v) == IF v = <<>> THEN 0 ELSE Head(v) + Sum(Tail(v))

\* Iterator::min: None for an empty vector.
min(v) ==
    IF v = <<>> THEN None
    ELSE Some(CHOOSE x \in {v[i] : i \in DOMAIN v} :
                 \A i \in DOMAIN v : x <= v[i])

\* Mutation of min_index: the last position holding the minimum.
min_index_last(phones_per_word, min_task) ==
    CHOOSE i \in DOMAIN phones_per_word :
        /\ phones_per_word[i] = min_task
        /\ \A j \in DOMAIN phones_per_word :
              phones_per_word[j] = min_task => j <= i

\* position(|&x| x == *min_task): the first position holding the minimum.
min_index(phones_per_word, min_task) ==
    CHOOSE i \in DOMAIN phones_per_word :
        /\ phones_per_word[i] = min_task
        /\ \A j \in DOMAIN phones_per_word :
              phones_per_word[j] = min_task => i <= j

\* The loop `for _ in 0..n_phone` with `remaining` rounds to go.
RECURSIVE distribute_loop(_, _)
distribute_loop(phones_per_word, remaining) ==
    IF remaining <= 0 THEN Ok(phones_per_word)
    ELSE LET min_task == min(phones_per_word)
         IN  IF ~min_task.some
             THEN Panic("called Option::unwrap() on a None value")
             ELSE distribute_loop(
                      [phones_per_word EXCEPT
                          ![min_index(phones_per_word, min_task.v)] = @ + 1],
                      remaining - 1)

distribute_phone(n_phone, n_word) ==
    distribute_loop([i \in 1..n_word |-> 0], n_phone)

InitDistribute ==
    /\ CacheIdle
    /\ ToneIdle
    /\ call \in [fn : {"distribute_phone"}, n_phone : 0..MaxPhone, n_word : 0..MaxWord]
    /\ ret = Pending

DistributePhone ==
    /\ call.fn = "distribute_phone"
    /\ ret = Pending
    /\ ret' = distribute_phone(call.n_phone, call.n_word)
    /\ UNCHANGED <<call, cacheVars, toneVars>>

NextDistribute == DistributePhone

SpecDistribute == InitDistribute /\ [][NextDistribute]_vars

\* The shape the distributor's result has to have: n_word counts that sum to
\* n_phone, the larger ones first and no two more than one apart.
Balanced(val, n_phone, n_word) ==
    /\ Len(val) = n_word
    /\ Sum(val) = n_phone
    /\ \A i, j \in DOMAIN val : val[i] - val[j] <= 1
    /\ \A i \in DOMAIN val :
          val[i] = (n_phone \div n_word)
                   + (IF i - 1 < n_phone % n_word THEN 1 ELSE 0)

\* C11 as stated: for every n_phone >= 0 and n_word >= 0 distribute_phone
\* returns a list of length n_word that sums to n_phone, whose largest and
\* smallest elements differ by at most 1, with the larger values first
\* (element i is floor(n_phone / n_word), plus 1 if i < n_phone mod n_word).
C11_DistributeAlwaysBalanced ==
    ret # Pending
    => /\ IsOk(ret)
       /\ Balanced(ret.val, call.n_phone, call.n_word)

\* C11 amended: the balanced list is returned for every n_phone >= 0 and
\* n_word >= 1, and (5, 3) gives [2, 2, 1]; (0, 0) gives the empty list;
\* with n_word = 0 and n_phone >= 1 the call panics on the minimum of an
\* empty vector.
C11_DistributeBalancedOrPanics ==
    ret # Pending
    => /\ call.n_word >= 1
            => IsOk(ret) /\ Balanced(ret.val, call.n_phone, call.n_word)
       /\ call.n_word = 0 /\ call.n_phone = 0 => ret = Ok(<<>>)
       /\ call.n_word = 0 /\ call.n_phone >= 1 => IsPanic(ret)
       /\ call.n_phone = 5 /\ call.n_word = 3 => ret = Ok(<<2, 2, 1>>)

\* C11 witness: five phonemes were spread over three characters.
C11_Witness ==
    /\ call.fn = "distribute_phone"
    /\ call.n_phone = 5
    /\ call.n_word = 3
    /\ IsOk(ret)

----------------------------------------------------------------------------
(* The aligner: align_tones applied to every pair of sequences within the
   bounds, and then once more to its own result. *)

\* The longest phoneme sequence and PhoneTone list handed to align_tones.
MaxAlignLen == 3

\* The punctuation set of crate::norm, here a single mark.
PUNCTUATIONS == {","}

AlignPhones == Phones \cup PUNCTUATIONS
AlignTones == {0, 1}

\* Mutation of matched: the tone of the consumed entry is copied one too high.
matched_off_by_one(phone, list, tone_index) ==
    <<phone, list[tone_index + 1][2] + 1>>

\* result.push((phone, phone_tone_list[tone_index].1)); tone_index counts from 0.
matched(phone, list, tone_index) ==
    <<phone, list[tone_index + 1][2]>>

\* The loop `for phone in phone_with_punct` over the phonemes not yet visited.
RECURSIVE align_loop(_, _, _, _)
align_loop(rest, list, tone_index, result) ==
    IF rest = <<>> THEN Ok(result)
    ELSE LET phone == Head(rest)
         IN  IF tone_index >= Len(list)
             THEN align_loop(Tail(rest), list, tone_index,
                             Append(result, <<phone, 0>>))
             ELSE IF phone = list[tone_index + 1][1]
             THEN align_loop(Tail(rest), list, tone_index + 1,
                             Append(result, matched(phone, list, tone_index)))
             ELSE IF phone \in PUNCTUATIONS
             THEN align_loop(Tail(rest), list, tone_index,
                             Append(result, <<phone, 0>>))
             ELSE Err("ValueError", phone)

align_tones(phone_with_punct, list) ==
    align_loop(phone_with_punct, list, 0, <<>>)

InitAlign ==
    /\ CacheIdle
    /\ ToneIdle
    /\ call \in [fn : {"align_tones"}, pass : {1},
                 phone_with_punct : SeqsUpTo(AlignPhones, MaxAlignLen),
                 phone_tone_list : SeqsUpTo(AlignPhones \X AlignTones, MaxAlignLen)]
    /\ ret = Pending

AlignTonesCall ==
    /\ call.fn = "align_tones"
    /\ ret = Pending
    /\ ret' = align_tones(call.phone_with_punct, call.phone_tone_list)
    /\ UNCHANGED <<call, cacheVars, toneVars>>

\* The result of a successful call is handed back as the PhoneTone list.
AlignTonesAgain ==
    /\ call.fn = "align_tones"
    /\ call.pass = 1
    /\ IsOk(ret)
    /\ call' = [call EXCEPT !.pass = 2, !.phone_tone_list = ret.val]
    /\ ret' = align_tones(call.phone_with_punct, ret.val)
    /\ UNCHANGED <<cacheVars, toneVars>>

NextAlign == AlignTonesCall \/ AlignTonesAgain

SpecAlign == InitAlign /\ [][NextAlign]_vars

\* C12: if align_tones(P, T) returned Ok(R), then align_tones(P, R)
\* succeeds and returns exactly R.
C12_AlignIdempotent ==
    call.fn = "align_tones" /\ call.pass = 2
    => ret = Ok(call.phone_tone_list)

\* C12 witness: a result holding a punctuation mark and a tone other than 0
\* was aligned again.
C12_Witness ==
    /\ call.fn = "align_tones"
    /\ call.pass = 2
    /\ IsOk(ret)
    /\ \E i, j \in DOMAIN ret.val :
          /\ ret.val[i][1] \in PUNCTUATIONS /\ ret.val[i][2] = 0
          /\ ret.val[j][1] \notin PUNCTUATIONS /\ ret.val[j][2] # 0

\* The sequence without its punctuation marks.
RECURSIVE WithoutPunct(_)
WithoutPunct(phones) ==
    IF phones = <<>> THEN <<>>
    ELSE IF Head(phones) \in PUNCTUATIONS THEN WithoutPunct(Tail(phones))
    ELSE <<Head(phones)>> \o WithoutPunct(Tail(phones))

PhonemesOf(list) == [i \in DOMAIN list |-> list[i][1]]

\* C17: for a punctuation-free PhoneTone list T, align_tones(P, T) returns
\* Ok exactly when P without its punctuation equals the phoneme sequence of
\* T; on success the result has one pair per phoneme of P in order, with tone
\* 0 for punctuation; otherwise it returns the mismatched-phoneme error.
C17_AlignIsIntegrityCheck ==
    /\ call.fn = "align_tones"
    /\ call.pass = 1
    /\ ret # Pending
    /\ \A i \in DOMAIN call.phone_tone_list :
          call.phone_tone_list[i][1] \notin PUNCTUATIONS
    => /\ IsOk(ret)
            <=> WithoutPunct(call.phone_with_punct) = PhonemesOf(call.phone_tone_list)
       /\ IsOk(ret)
            => /\ PhonemesOf(ret.val) = call.phone_with_punct
               /\ \A i \in DOMAIN ret.val :
                     ret.val[i][1] \in PUNCTUATIONS => ret.val[i][2] = 0
       /\ ~IsOk(ret) => IsErr(ret) /\ ret.err = "ValueError"

----------------------------------------------------------------------------
(* The audio assembly of synthesize (tts.rs), after the model and the style
   vector were found: applied to every text within the bounds. *)

\* The longest text, in characters, handed to synthesize.
MaxTextLen == 4

LF == "\n"

\* A character the text pipeline accepts, one it rejects, and the line break.
TextChars == {"x", "!", LF}

\* Array3::zeros((1, 1, 22050)): the number of samples of an inserted pause.
SilenceSamples == 22050

\* WavSpec.sample_rate of the encoded waveform.
sample_rate == 44100

zeros(n) == [kind |-> "zeros", samples |-> n]

\* parse_text followed by model::synthesize on one text: the waveform of
\* that text, or the pipeline's error.
audio_of(t) ==
    IF \E i \in DOMAIN t : t[i] = "!" THEN Err("ValueError", t)
    ELSE Ok([kind |-> "audio", text |-> t])

\* text.split('\n'): the pieces between line breaks, empty ones kept.
RECURSIVE split(_, _)
split(text, piece) ==
    IF text = <<>> THEN <<piece>>
    ELSE IF Head(text) = LF THEN <<piece>> \o split(Tail(text), <<>>)
    ELSE split(Tail(text), Append(piece, Head(text)))

\* The loop `for (i, t) in texts.iter().enumerate()` from index i (from 0) on.
RECURSIVE split_loop(_, _, _)
split_loop(texts, i, audios) ==
    IF i >= Len(texts) THEN Ok(audios)
    ELSE LET t == texts[i + 1]
             audio == audio_of(t)
         IN  IF t = <<>> THEN split_loop(texts, i + 1, audios)
             ELSE IF ~IsOk(audio) THEN audio
             ELSE split_loop(texts, i + 1,
                     IF i # Len(texts) - 1
                     THEN audios \o <<audio.val, zeros(SilenceSamples)>>
                     ELSE Append(audios, audio.val))

\* ndarray::concatenate(Axis(2), ..): refuses an empty list of arrays.
concatenate(audios) ==
    IF audios = <<>> THEN Err("NdArrayError", "Unsupported")
    ELSE Ok(audios)

\* array_to_vec: the samples under the header of a 44100 Hz mono stream.
array_to_vec(audio_array) ==
    Ok([sample_rate |-> sample_rate, segments |-> audio_array])

\* synthesize from `match options.split_sentences` on.
synthesize_audio(text, split_sentences) ==
    IF split_sentences
    THEN LET audios == split_loop(split(text, <<>>), 0, <<>>)
         IN  IF ~IsOk(audios) THEN audios
             ELSE LET audio_array == concatenate(audios.val)
                  IN  IF ~IsOk(audio_array) THEN audio_array
                      ELSE array_to_vec(audio_array.val)
    ELSE LET audio == audio_of(text)
         IN  IF ~IsOk(audio) THEN audio ELSE array_to_vec(<<audio.val>>)

InitSplit ==
    /\ CacheIdle
    /\ ToneIdle
    /\ call \in [fn : {"synthesize_audio"},
                 text : SeqsUpTo(TextChars, MaxTextLen),
                 split_sentences : BOOLEAN]
    /\ ret = Pending

SynthesizeAudio ==
    /\ call.fn = "synthesize_audio"
    /\ ret = Pending
    /\ ret' = synthesize_audio(call.text, call.split_sentences)
    /\ UNCHANGED <<call, cacheVars, toneVars>>

NextSplit == SynthesizeAudio

SpecSplit == InitSplit /\ [][NextSplit]_vars

\* The non-empty lines of the text, in order.
NonEmptyLines(text) == SelectSeq(split(text, <<>>), LAMBDA t : t # <<>>)

IsSilence(seg) == seg.kind = "zeros"

\* C13: with split_sentences on, a text of two non-empty lines separated by
\* one line break gives exactly three segments, the middle one being one
\* second of silence: 44100 zero samples at 44100 Hz.
C13_OneSecondOfSilence ==
    /\ call.fn = "synthesize_audio"
    /\ call.split_sentences
    /\ IsOk(ret)
    /\ Len(split(call.text, <<>>)) = 2
    /\ Len(NonEmptyLines(call.text)) = 2
    => /\ Len(ret.val.segments) = 3
       /\ ret.val.segments[1] = audio_of(split(call.text, <<>>)[1]).val
       /\ ret.val.segments[3] = audio_of(split(call.text, <<>>)[2]).val
       /\ ret.val.sample_rate = 44100
       /\ ret.val.segments[2] = zeros(44100)

\* C19: with split_sentences on, the output is the waveforms of the
\* non-empty lines in order with exactly one silence between each adjacent
\* pair: the silences number one less than the non-empty lines, and the
\* output neither begins nor ends with a silence, whatever line breaks
\* lead, trail or are doubled.
C19_SilenceOnlyBetween ==
    /\ call.fn = "synthesize_audio"
    /\ call.split_sentences
    /\ IsOk(ret)
    => LET lines == NonEmptyLines(call.text)
           segs == ret.val.segments
       IN  /\ Len(segs) = 2 * Len(lines) - 1
           /\ \A i \in DOMAIN segs :
                 IF i % 2 = 1 THEN segs[i] = audio_of(lines[(i + 1) \div 2]).val
                 ELSE IsSilence(segs[i])
           /\ Cardinality({i \in DOMAIN segs : IsSilence(segs[i])}) = Len(lines) - 1
           /\ ~IsSilence(segs[1])
           /\ ~IsSilence(segs[Len(segs)])

----------------------------------------------------------------------------
(* The long-vowel resolver: handle_long applied to every list of segments
   within the bounds, in both build profiles. *)

\* The most segments, and the most phonemes of a segment, handed to handle_long.
MaxSegs == 2
MaxSegLen == 2

LongMark == "ー"

VOWELS == {"a", "i", "u", "e", "o", "N"}

\* A vowel, a two-letter consonant and the long-vowel mark.
LongPhones == {"a", "ky", LongMark}

\* chars().last().unwrap().to_string(): the last character of a phoneme.
last_char(phoneme) == IF phoneme = "ky" THEN "y" ELSE phoneme

\* The match on i for a segment that starts with the mark; i counts from 0.
resolve_first(sep_phonemes, i) ==
    IF i = 0 THEN Ok([sep_phonemes EXCEPT ![i + 1][1] = LongMark])
    ELSE IF sep_phonemes[i] = <<>>
    THEN Panic("called Option::unwrap() on a None value")
    ELSE LET prev_phoneme == sep_phonemes[i][Len(sep_phonemes[i])]
         IN  IF prev_phoneme \in VOWELS
             THEN Ok([sep_phonemes EXCEPT ![i + 1][1] = prev_phoneme])
             ELSE Ok([sep_phonemes EXCEPT ![i + 1][1] = LongMark])

\* The loop `for e in 0..sep_phonemes[i].len()` of one segment, from e on.
RECURSIVE resolve_marks(_, _, _)
resolve_marks(segment, e, checks) ==
    IF e >= Len(segment) THEN Ok(segment)
    ELSE IF segment[e + 1] # LongMark THEN resolve_marks(segment, e + 1, checks)
    ELSE LET index == usize_sub(e, 1, checks)
         IN  IF ~IsOk(index) THEN index
             ELSE IF index.val >= Len(segment)
             THEN Panic("index out of bounds")
             ELSE resolve_marks(
                      [segment EXCEPT ![e + 1] = last_char(segment[index.val + 1])],
                      e + 1, checks)

\* The loop `for i in 0..sep_phonemes.len()`, from i on.
RECURSIVE handle_long_loop(_, _, _)
handle_long_loop(sep_phonemes, i, checks) ==
    IF i >= Len(sep_phonemes) THEN Ok(sep_phonemes)
    ELSE IF sep_phonemes[i + 1] = <<>> THEN handle_long_loop(sep_phonemes, i + 1, checks)
    ELSE LET first == IF sep_phonemes[i + 1][1] = LongMark
                      THEN resolve_first(sep_phonemes, i)
                      ELSE Ok(sep_phonemes)
         IN  IF ~IsOk(first) THEN first
             ELSE LET segment == resolve_marks(first.val[i + 1], 0, checks)
                  IN  IF ~IsOk(segment) THEN segment
                      ELSE handle_long_loop([first.val EXCEPT ![i + 1] = segment.val],
                                            i + 1, checks)

handle_long(sep_phonemes, checks) == handle_long_loop(sep_phonemes, 0, checks)

InitLong ==
    /\ max_loaded_models = None
    /\ models = new(None).models
    /\ overflow_checks \in BOOLEAN
    /\ last = [op |-> "new", model_ident |-> "", res |-> Ok(Unit),
               prep |-> NotCalled, known |-> FALSE, was_hot |-> FALSE,
               evicted |-> {}]
    /\ instantiated = <<>>
    /\ ToneIdle
    /\ call \in [fn : {"handle_long"},
                 sep_phonemes : SeqsUpTo(SeqsUpTo(LongPhones, MaxSegLen), MaxSegs)]
    /\ ret = Pending

HandleLong ==
    /\ call.fn = "handle_long"
    /\ ret = Pending
    /\ ret' = handle_long(call.sep_phonemes, overflow_checks)
    /\ UNCHANGED <<call, cacheVars, toneVars>>

NextLong == HandleLong

SpecLong == InitLong /\ [][NextLong]_vars

\* Segment i (from 1) of the argument starts with the long-vowel mark.
LeadingMark(i) ==
    /\ call.sep_phonemes[i] # <<>>
    /\ call.sep_phonemes[i][1] = LongMark

\* C15: when the long-vowel mark is the first phoneme of segment i,
\* handle_long returns normally; the mark is replaced by the previous
\* segment's last phoneme if there is a previous segment and that phoneme is
\* a vowel, and otherwise stays the literal mark; every phoneme of that
\* segment that is not a mark is unchanged.
C15_LeadingMarkResolved ==
    /\ call.fn = "handle_long"
    /\ ret # Pending
    => \A i \in DOMAIN call.sep_phonemes :
          LeadingMark(i)
          => /\ IsOk(ret)
             /\ LET prev == IF i > 1 THEN ret.val[i - 1] ELSE <<>>
                IN  IF prev # <<>> /\ prev[Len(prev)] \in VOWELS
                    THEN ret.val[i][1] = prev[Len(prev)]
                    ELSE ret.val[i][1] = LongMark
             /\ \A e \in DOMAIN call.sep_phonemes[i] :
                   call.sep_phonemes[i][e] # LongMark
                   => ret.val[i][e] = call.sep_phonemes[i][e]

----------------------------------------------------------------------------
(* g2p and the Word2Ph arithmetic of parse_text_blocking, applied to every
   parsed text within the bounds: a list of words, each with the phonemes
   its reading expands to, and the tone list of the same text. *)

\* The most words of a parsed text.
MaxWords == 2

\* The surface forms of a word: empty, one or two characters, a punctuation mark.
WordTexts == {<<>>, <<"x">>, <<"x", "x">>, <<",">>}

\* What kata_to_phoneme_list gives for one reading.
WordPhonemes ==
    {<<>>, <<"a">>, <<"k", "a">>, <<"a", LongMark>>, <<LongMark>>, <<",">>}

Words == [text : WordTexts, phonemes : WordPhonemes]

\* The PhoneTone lists g2phone_tone_wo_punct may hand over.
ToneLists == SeqsUpTo({<<"a", 0>>, <<"a", 1>>, <<"k", 0>>}, MaxWords)

\* sep_tokenized: the characters of a word, a punctuation mark as one token.
tokenized(text) ==
    IF \E mark \in PUNCTUATIONS : text = <<mark>> THEN <<text>>
    ELSE [i \in DOMAIN text |-> <<text[i]>>]

\* The loop over sep_tokenized.iter().zip(sep_phonemes.iter()) from pair k on.
RECURSIVE word2ph_loop(_, _, _, _)
word2ph_loop(sep_tokenized, sep_phonemes, k, word2ph) ==
    IF k > Len(sep_tokenized) \/ k > Len(sep_phonemes) THEN Ok(word2ph)
    ELSE LET phone_len == Len(sep_phonemes[k])
             word_len == Len(sep_tokenized[k])
             part == distribute_phone(phone_len, word_len)
         IN  IF ~IsOk(part) THEN part
             ELSE word2ph_loop(sep_tokenized, sep_phonemes, k + 1, word2ph \o part.val)

g2p(words, phone_tone_list_wo_punct, checks) ==
    LET sep_phonemes == handle_long([k \in DOMAIN words |-> words[k].phonemes], checks)
    IN  IF ~IsOk(sep_phonemes) THEN sep_phonemes
        ELSE
        LET phone_w_punct == Flatten(sep_phonemes.val)
            aligned == align_tones(phone_w_punct, phone_tone_list_wo_punct)
            sep_tokenized == [k \in DOMAIN words |-> tokenized(words[k].text)]
            word2ph == word2ph_loop(sep_tokenized, sep_phonemes.val, 1, <<>>)
        IN  IF ~IsOk(aligned) THEN aligned
            ELSE IF ~IsOk(word2ph) THEN word2ph
            ELSE LET new_phone_tone_list ==
                         <<<<"_", 0>>>> \o aligned.val \o <<<<"_", 0>>>>
                     new_word2ph == <<1>> \o word2ph.val \o <<1>>
                 IN  Ok([phones |-> PhonemesOf(new_phone_tone_list),
                         tones |-> [i \in DOMAIN new_phone_tone_list |->
                                       new_phone_tone_list[i][2]],
                         word2ph |-> new_word2ph])

\* Mutation of double_word2ph: the first entry is not incremented.
double_word2ph_only(word2ph) ==
    [i \in DOMAIN word2ph |-> word2ph[i] * 2]

\* `*item *= 2` for every item, then `word2ph[0] += 1`.
double_word2ph(word2ph) ==
    [[i \in DOMAIN word2ph |-> word2ph[i] * 2] EXCEPT ![1] = @ + 1]

\* Row i of the embedding matrix (rows counted from 0) reps times.
repeat_feature(i, reps) == [j \in 1..reps |-> [row |-> i]]

\* phone_level_feature: the repeated rows of all entries, concatenated.
RECURSIVE phone_level_feature(_, _)
phone_level_feature(word2ph, i) ==
    IF i >= Len(word2ph) THEN <<>>
    ELSE repeat_feature(i, word2ph[i + 1]) \o phone_level_feature(word2ph, i + 1)

\* parse_text_blocking from the g2p call on, the embedding matrix having a
\* row for every entry of word2ph.
parse_text_blocking(words, phone_tone_list_wo_punct, checks) ==
    LET process == g2p(words, phone_tone_list_wo_punct, checks)
    IN  IF ~IsOk(process) THEN process
        ELSE LET word2ph == double_word2ph(process.val.word2ph)
                 text == Flatten([k \in DOMAIN words |-> words[k].text])
             IN  IF Len(word2ph) # Len(text) + 2
                 THEN Panic("assertion failed: word2ph.len() == text.chars().count() + 2")
                 ELSE Ok([g2p |-> process.val,
                          word2ph |-> word2ph,
                          bert_ori |-> phone_level_feature(word2ph, 0)])

InitParse ==
    /\ CacheIdle
    /\ ToneIdle
    /\ call \in [fn : {"parse_text_blocking"},
                 words : SeqsUpTo(Words, MaxWords),
                 phone_tone_list_wo_punct : ToneLists]
    /\ ret = Pending

ParseTextBlocking ==
    /\ call.fn = "parse_text_blocking"
    /\ ret = Pending
    /\ ret' = parse_text_blocking(call.words, call.phone_tone_list_wo_punct,
                                  overflow_checks)
    /\ UNCHANGED <<call, cacheVars, toneVars>>

NextParse == ParseTextBlocking

SpecParse == InitParse /\ [][NextParse]_vars

\* C14: whenever parse_text_blocking gets through, the Word2Ph that g2p
\* returned starts and ends with 1 and sums to the number of phonemes g2p
\* returned; after doubling and adding 1 to the first entry it sums to twice
\* that number plus 1; and row i of the embedding matrix is replicated
\* word2ph[i] times, so the feature vectors number that sum.
C14_Word2PhSums ==
    call.fn = "parse_text_blocking" /\ IsOk(ret)
    => LET phones == ret.val.g2p.phones
           g2p_word2ph == ret.val.g2p.word2ph
           word2ph == ret.val.word2ph
           bert_ori == ret.val.bert_ori
       IN  /\ g2p_word2ph[1] = 1
           /\ g2p_word2ph[Len(g2p_word2ph)] = 1
           /\ Sum(g2p_word2ph) = Len(phones)
           /\ Len(word2ph) = Len(g2p_word2ph)
           /\ Sum(word2ph) = 2 * Len(phones) + 1
           /\ Len(bert_ori) = Sum(word2ph)
           /\ \A i \in DOMAIN word2ph :
                 Cardinality({j \in DOMAIN bert_ori : bert_ori[j].row = i - 1})
                    = word2ph[i]

\* C14 witness: a text of a two-character word of two phonemes and a
\* punctuation mark got through.
C14_Witness ==
    /\ call.fn = "parse_text_blocking"
    /\ IsOk(ret)
    /\ call.words = <<[text |-> <<"x", "x">>, phonemes |-> <<"k", "a">>],
                      [text |-> <<",">>, phonemes |-> <<",">>]>>
    /\ call.phone_tone_list_wo_punct = <<<<"k", 0>>, <<"a", 1>>>>
    /\ ret.val.word2ph = <<3, 2, 2, 2, 2>>

----------------------------------------------------------------------------
(* The prosody extractor: g2p_prosody applied to every label sequence
   within the bounds: two labels between the opening and the closing "sil". *)

\* The largest mora position and mora count of a label.
MaxMora == 2

\* Label.phoneme.c: a vowel, a devoiced vowel, a consonant, silence, a pause.
LabelPhonemes == {"a", "A", "k", "sil", "pau"}

\* Label.mora: relative_accent_position, position_forward, position_backward.
Moras ==
    {None} \cup {Some(m) : m \in [relative_accent_position : {-1, 0, 1},
                                  position_forward : 1..MaxMora,
                                  position_backward : 1..MaxMora]}

\* Label.accent_phrase_curr: mora_count.
AccentPhrases == {None} \cup {Some([mora_count |-> n]) : n \in 1..MaxMora}

InnerLabels ==
    [c : LabelPhonemes, mora : Moras, accent_phrase_curr : AccentPhrases,
     accent_phrase_prev : {None}]

\* The label of the silence that opens and closes every utterance.
SilLabel(accent_phrase_prev) ==
    [c |-> "sil", mora |-> None, accent_phrase_curr |-> None,
     accent_phrase_prev |-> accent_phrase_prev]

\* The labels that follow the first one: a vowel or a pause, on any mora.
NextLabels ==
    [c : {"a", "pau"}, mora : Moras, accent_phrase_curr : {None},
     accent_phrase_prev : {None}]

LabelSeqs ==
    {<<SilLabel(None), l1, l2, SilLabel(prev)>> :
        l1 \in InnerLabels, l2 \in NextLabels,
        prev \in {None, Some([is_interrogative |-> TRUE]),
                  Some([is_interrogative |-> FALSE])}}

\* p3.to_lowercase() where "AIUEO".contains(&p3).
lowered(p3) ==
    IF p3 \in {"A", "I", "U", "E", "O", "AI", "IU", "UE", "EO"}
    THEN CASE p3 = "A" -> "a" [] p3 = "I" -> "i" [] p3 = "U" -> "u"
           [] p3 = "E" -> "e" [] p3 = "O" -> "o" [] p3 = "AI" -> "ai"
           [] p3 = "IU" -> "iu" [] p3 = "UE" -> "ue" [] p3 = "EO" -> "eo"
    ELSE p3

\* "aeiouAEIOUNcl".contains(&p3) for the phonemes of one or two letters.
is_vowel_nasal_geminate(p3) ==
    p3 \in {"a", "e", "i", "o", "u", "A", "E", "I", "O", "U", "N", "c", "l",
            "ae", "ei", "io", "ou", "uA", "AE", "EI", "IO", "OU", "UN", "Nc", "cl"}

\* The fields the look-ahead reads of label i (from 0): -50 where absent.
fields(labels, i) ==
    LET label == labels[i + 1]
        next == labels[i + 2]
    IN  [p3 |-> lowered(label.c),
         a1 |-> IF label.mora.some THEN label.mora.v.relative_accent_position ELSE -50,
         a2 |-> IF label.mora.some THEN label.mora.v.position_forward ELSE -50,
         a3 |-> IF label.mora.some THEN label.mora.v.position_backward ELSE -50,
         f1 |-> IF label.accent_phrase_curr.some
                THEN label.accent_phrase_curr.v.mora_count ELSE -50,
         a2_next |-> IF next.mora.some THEN next.mora.v.position_forward ELSE -50]

\* The three look-ahead conditions.
accent_phrase_border(f) ==
    f.a3 = 1 /\ f.a2_next = 1 /\ is_vowel_nasal_geminate(f.p3)

pitch_falling(f) == f.a1 = 0 /\ f.a2_next = f.a2 + 1 /\ f.a2 # f.f1

pitch_rising(f) == f.a2 = 1 /\ f.a2_next = 2

\* Mutation of marker: three separate tests in place of the else-if chain.
marker_each(f) ==
    (IF accent_phrase_border(f) THEN <<"#">> ELSE <<>>)
    \o (IF pitch_falling(f) THEN <<"]">> ELSE <<>>)
    \o (IF pitch_rising(f) THEN <<"[">> ELSE <<>>)

\* What the else-if chain pushes after the phoneme.
marker(f) ==
    IF accent_phrase_border(f) THEN <<"#">>
    ELSE IF pitch_falling(f) THEN <<"]">>
    ELSE IF pitch_rising(f) THEN <<"[">>
    ELSE <<>>

\* Mutation of prosody_loop: the marker is pushed before the phoneme.
RECURSIVE prosody_loop_marker_first(_, _, _)
prosody_loop_marker_first(labels, i, phones) ==
    IF i >= Len(labels) THEN Ok(phones)
    ELSE LET label == labels[i + 1]
             p3 == lowered(label.c)
         IN  IF p3 = "sil"
             THEN IF ~(i = 0 \/ i = Len(labels) - 1)
                  THEN Panic("assertion failed: i == 0 || i == labels.len() - 1")
                  ELSE IF i = 0
                  THEN prosody_loop_marker_first(labels, i + 1, Append(phones, "^"))
                  ELSE IF ~label.accent_phrase_prev.some
                  THEN Panic("called Option::unwrap() on a None value")
                  ELSE prosody_loop_marker_first(labels, i + 1,
                          Append(phones,
                                 IF label.accent_phrase_prev.v.is_interrogative
                                 THEN "$" ELSE "?"))
             ELSE IF p3 = "pau"
             THEN prosody_loop_marker_first(labels, i + 1, Append(phones, "_"))
             ELSE IF i + 1 >= Len(labels) THEN Panic("index out of bounds")
             ELSE prosody_loop_marker_first(labels, i + 1,
                      phones \o marker(fields(labels, i)) \o <<p3>>)

\* The loop `for (i, label) in labels.iter().enumerate()` from i (from 0) on.
RECURSIVE prosody_loop(_, _, _)
prosody_loop(labels, i, phones) ==
    IF i >= Len(labels) THEN Ok(phones)
    ELSE LET label == labels[i + 1]
             p3 == lowered(label.c)
         IN  IF p3 = "sil"
             THEN IF ~(i = 0 \/ i = Len(labels) - 1)
                  THEN Panic("assertion failed: i == 0 || i == labels.len() - 1")
                  ELSE IF i = 0 THEN prosody_loop(labels, i + 1, Append(phones, "^"))
                  ELSE IF ~label.accent_phrase_prev.some
                  THEN Panic("called Option::unwrap() on a None value")
                  ELSE prosody_loop(labels, i + 1,
                          Append(phones,
                                 IF label.accent_phrase_prev.v.is_interrogative
                                 THEN "$" ELSE "?"))
             ELSE IF p3 = "pau" THEN prosody_loop(labels, i + 1, Append(phones, "_"))
             ELSE IF i + 1 >= Len(labels) THEN Panic("index out of bounds")
             ELSE prosody_loop(labels, i + 1,
                               Append(phones, p3) \o marker(fields(labels, i)))

g2p_prosody(labels) == prosody_loop(labels, 0, <<>>)

InitProsody ==
    /\ CacheIdle
    /\ ToneIdle
    /\ call \in [fn : {"g2p_prosody"}, labels : LabelSeqs]
    /\ ret = Pending

G2pProsody ==
    /\ call.fn = "g2p_prosody"
    /\ ret = Pending
    /\ ret' = g2p_prosody(call.labels)
    /\ UNCHANGED <<call, cacheVars, toneVars>>

NextProsody == G2pProsody

SpecProsody == InitProsody /\ [][NextProsody]_vars

\* The labels (from 0) whose phoneme is followed by the look-ahead test.
Tested == {i \in 0..(Len(call.labels) - 2) :
              lowered(call.labels[i + 1].c) \notin {"sil", "pau"}}

\* How many of the three conditions hold for label i.
Holding(i) ==
    LET f == fields(call.labels, i)
    IN  (IF accent_phrase_border(f) THEN 1 ELSE 0)
        + (IF pitch_falling(f) THEN 1 ELSE 0)
        + (IF pitch_rising(f) THEN 1 ELSE 0)

Markers == {"#", "]", "["}

MarkerCount(phones) == Cardinality({j \in DOMAIN phones : phones[j] \in Markers})

\* C16 as stated: for every label at most one of the three look-ahead
\* conditions holds, so that at most one marker is emitted per label.
C16_ConditionsExclusive ==
    call.fn = "g2p_prosody" /\ IsOk(ret)
    => /\ \A i \in Tested : Holding(i) <= 1
       /\ MarkerCount(ret.val) <= Cardinality(Tested)

\* C16 amended: the conditions of '#' and '[' exclude each other, those of
\* ']' and '[' do not; the tests run in the order '#', ']', '[' and stop at
\* the first that holds, so each label's phoneme is followed by at most one
\* marker, the first in that order whose condition holds.
C16_FirstHoldingMarker ==
    call.fn = "g2p_prosody" /\ IsOk(ret)
    => /\ \A i \in Tested :
             LET f == fields(call.labels, i)
             IN  /\ ~(accent_phrase_border(f) /\ pitch_rising(f))
                 /\ Len(marker(f)) <= 1
                 /\ Len(marker(f)) = 1 <=> Holding(i) >= 1
                 /\ accent_phrase_border(f) => marker(f) = <<"#">>
                 /\ ~accent_phrase_border(f) /\ pitch_falling(f) => marker(f) = <<"]">>
       /\ MarkerCount(ret.val) = Cardinality({i \in Tested : Holding(i) >= 1})
       /\ \A j \in DOMAIN ret.val :
             ret.val[j] \in Markers => j > 1 /\ ret.val[j - 1] \notin Markers

\* C16 witness: a label for which both ']' and '[' hold was followed by ']'
\* alone.
C16_Witness ==
    /\ call.fn = "g2p_prosody"
    /\ IsOk(ret)
    /\ LET f == fields(call.labels, 1)
       IN  1 \in Tested /\ pitch_falling(f) /\ pitch_rising(f)
    /\ ret.val[2] = "a"
    /\ ret.val[3] = "]"
    /\ ret.val[4] \notin Markers

----------------------------------------------------------------------------
(* The order of the steps of synthesize, and the order of eviction. *)

\* C18: a synthesize call whose text pipeline fails has evicted,
\* re-instantiated and reordered nothing: the cache is as it was before the
\* call.
C18_TextFailureLeavesCache ==
    [][ ( /\ last'.op = "synthesize"
          /\ IsOk(last'.prep)
          /\ last'.res = Err("ValueError", "") )
        => models' = models ]_vars

\* The identities of the entries with a session, in the order of the vector.
HotInVecOrder(m) ==
    LET hot == SelectSeq(m.vec, LAMBDA e : e.model_ident \in HotIdents(m))
    IN  [i \in DOMAIN hot |-> hot[i].model_ident]

\* C20: the entries with a session stand in the vector in the order in which
\* their current sessions were instantiated, by load or by re-activation;
\* an eviction takes the entry whose current session is the oldest; and a
\* synthesize call on an entry that has a session changes neither the cache
\* nor that order.
C20_EvictsOldestSession ==
    [][ /\ HotInVecOrder(models') = instantiated'
        /\ last'.op = "synthesize"
             => /\ \A id \in EvictedBetween(models, models') :
                      instantiated # <<>> /\ id = Head(instantiated)
                /\ Target \in HotIdents(models)
                     => models' = models /\ instantiated' = instantiated ]_vars

\* C20 witness: of two live sessions one was evicted for a third entry, and
\* the session that stayed is older than the new one.
C20_Witness ==
    /\ last.op = "synthesize"
    /\ IsOk(last.res)
    /\ Cardinality(last.evicted) = 1
    /\ Len(instantiated) = 2
    /\ instantiated[2] = last.model_ident
    /\ HotInVecOrder(models) = instantiated

----------------------------------------------------------------------------
(* The identities of the registered models. *)

\* model_idents: the identity of every entry, in the order of the vector.
model_idents(self) ==
    [i \in DOMAIN self.models.vec |-> self.models.vec[i].model_ident]

\* No identity stands twice in the list.
Unique(idents) ==
    \A i, j \in DOMAIN idents : idents[i] = idents[j] => i = j

Registered(idents) == {idents[i] : i \in DOMAIN idents}

\* C21: after every call that returns, successful or failed, model_idents()
\* holds no identity twice, and a registered identity stays in model_idents()
\* until an unload of that identity.
C21_IdentsUniqueAndKept ==
    [][ ~IsPanic(last'.res)
        => LET before == model_idents(Self)
               after == model_idents([Self EXCEPT !.models = models'])
           IN  /\ Unique(after)
               /\ last'.op # "unload" => Registered(before) \subseteq Registered(after)
               /\ last'.op = "unload"
                    => Registered(before) \ {Target} \subseteq Registered(after) ]_vars

----------------------------------------------------------------------------
(* The tone assignment: g2phone_tone_wo_punct applied to every label
   sequence within the bounds. *)

\* Streams of three labels between the silences, for a marker, a pause and
\* a phone in a row.
LongLabelSeqs ==
    {<<SilLabel(None), l1, l2, l3, SilLabel(Some([is_interrogative |-> FALSE]))>> :
        l1 \in NextLabels, l2 \in NextLabels, l3 \in NextLabels}

\* The symbols of the prosody stream that are not phones.
ProsodySymbols == {"^", "$", "?", "_", "#", "[", "]"}

\* The loop `for (i, letter) in prosodies.iter().enumerate()` from i (from 0)
\* on; passed collects the phrases handed to fix_phone_tone on the way.
RECURSIVE tone_loop(_, _, _, _, _, _)
tone_loop(prosodies, i, results, current_phrase, current_tone, passed) ==
    IF i >= Len(prosodies) THEN [res |-> Ok(results), passed |-> passed]
    ELSE
    LET letter == prosodies[i + 1]
    IN  IF letter = "^"
        THEN IF i # 0
             THEN [res |-> Panic("assertion failed: i == 0"), passed |-> passed]
             ELSE tone_loop(prosodies, i + 1, results, current_phrase,
                            current_tone, passed)
        ELSE IF letter \in {"$", "?", "_", "#"}
        THEN LET phrase == fix_phone_tone(current_phrase)
                 handed == Append(passed, current_phrase)
             IN  IF ~IsOk(phrase) THEN [res |-> phrase, passed |-> handed]
                 ELSE IF letter \in {"$", "?"} /\ i # Len(prosodies) - 1
                 THEN [res |-> Panic("assertion failed: i == prosodies.len() - 1"),
                       passed |-> handed]
                 ELSE tone_loop(prosodies, i + 1, results \o phrase.val,
                                <<>>, 0, handed)
        ELSE IF letter = "["
        THEN tone_loop(prosodies, i + 1, results, current_phrase,
                       current_tone + 1, passed)
        ELSE IF letter = "]"
        THEN tone_loop(prosodies, i + 1, results, current_phrase,
                       current_tone - 1, passed)
        ELSE LET new_letter == IF letter = "cl" THEN "q" ELSE letter
             IN  tone_loop(prosodies, i + 1, results,
                           Append(current_phrase, <<new_letter, current_tone>>),
                           current_tone, passed)

\* g2phone_tone_wo_punct with the phrases it handed to fix_phone_tone.
tone_run(labels) ==
    LET prosodies == g2p_prosody(labels)
    IN  IF ~IsOk(prosodies) THEN [res |-> prosodies, passed |-> <<>>]
        ELSE tone_loop(prosodies.val, 0, <<>>, <<>>, 0, <<>>)

g2phone_tone_wo_punct(labels) == tone_run(labels).res

InitPhoneTone ==
    /\ CacheIdle
    /\ ToneIdle
    /\ call \in [fn : {"g2phone_tone_wo_punct"}, labels : LabelSeqs \cup LongLabelSeqs]
    /\ ret = Pending

\* The call returns; the tone variables show its last fix_phone_tone call.
G2phoneToneWoPunct ==
    /\ call.fn = "g2phone_tone_wo_punct"
    /\ ret = Pending
    /\ LET run == tone_run(call.labels)
       IN  /\ ret' = run.res
           /\ IF run.passed = <<>>
              THEN UNCHANGED toneVars
              ELSE /\ phone_tone_list' = run.passed[Len(run.passed)]
                   /\ fixed' = fix_phone_tone(run.passed[Len(run.passed)])
    /\ UNCHANGED <<call, cacheVars>>

NextPhoneTone == G2phoneToneWoPunct

SpecPhoneTone == InitPhoneTone /\ [][NextPhoneTone]_vars

\* The assertions of g2phone_tone_wo_punct and of fix_phone_tone.
ToneAssertions ==
    {Panic("assertion failed: tone_values == hash_set![0]"),
     Panic("assertion failed: i == 0"),
     Panic("assertion failed: i == prosodies.len() - 1")}

\* C22: for every label stream between two silence labels, the symbol
\* stream of g2p_prosody has '[' and ']' only directly after a phone symbol;
\* every non-empty phrase handed to fix_phone_tone has its first phone at
\* tone 0, so its tone set contains 0; and neither the assertion of
\* fix_phone_tone on a single-valued tone set nor the position assertions on
\* '^' and on '$' / '?' fail.
C22_ToneAssertionsHold ==
    call.fn = "g2phone_tone_wo_punct" /\ ret # Pending
    => LET prosodies == g2p_prosody(call.labels)
           run == tone_run(call.labels)
       IN  /\ ret \notin ToneAssertions
           /\ fixed \notin ToneAssertions
           /\ IsOk(prosodies)
                => /\ ~IsPanic(ret)
                   /\ \A j \in DOMAIN prosodies.val :
                         prosodies.val[j] \in {"[", "]"}
                         => j > 1 /\ prosodies.val[j - 1] \notin ProsodySymbols
                   /\ \A k \in DOMAIN run.passed :
                         run.passed[k] # <<>>
                         => /\ run.passed[k][1][2] = 0
                            /\ \E n \in DOMAIN run.passed[k] :
                                  run.passed[k][n][2] = 0

\* C22 witness: a phrase of two phones with a falling marker between them
\* went through: the tones 0, -1 came back as 1, 0.
C22_Witness ==
    /\ call.fn = "g2phone_tone_wo_punct"
    /\ ret = Ok(<<<<"a", 1>>, <<"a", 0>>>>)
    /\ phone_tone_list = <<<<"a", 0>>, <<"a", -1>>>>
    /\ g2p_prosody(call.labels) = Ok(<<"^", "a", "]", "a", "$">>)

====
